---- MODULE Spec2Model ----
(***************************************************************************)
(* Model of mental_health_utils.py: the loader join_tables_to_dataframe,   *)
(* the tabulator count_values, the categorizer transform_and_aggregate and *)
(* the interval estimator calculate_confidence_interval.                   *)
(*                                                                         *)
(* Texts are sequences of one-character strings so that str.lower() is a   *)
(* computation.  A cell of a text column is a record: either the null cell *)
(* (None / NaN) or a text.  Proportions, z scores and confidence levels    *)
(* are fixed-point numbers in thousandths.                                 *)
(***************************************************************************)
EXTENDS Integers, Sequences, FiniteSets, TLC

VARIABLES
    db,        \* the data source: whether it can be opened, which tables it has
    pc,        \* position inside join_tables_to_dataframe
    conn,      \* the local `conn`: "unbound", "open" or "closed"
    pending,   \* the exception in flight, "none" when there is none
    staged,    \* the value the call is about to return
    outcome,   \* how the last loader call ended
    stdout,    \* the lines printed by the current (or last) call
    df,        \* the caller's Response Table
    ret        \* the last analysis call: its arguments, locals and return value

vars == <<db, pc, conn, pending, staged, outcome, stdout, df, ret>>

----------------------------------------------------------------------------
(* Bounds of the model. *)

MaxRows == 4

----------------------------------------------------------------------------
(* Texts and cells. *)

Range(s) == {s[i] : i \in DOMAIN s}

Min(a, b) == IF a <= b THEN a ELSE b

RECURSIVE SumSeq(_)
SumSeq(s) == IF s = <<>> THEN 0 ELSE Head(s) + SumSeq(Tail(s))

Null == [null |-> TRUE, s |-> <<>>]

Str(t) == [null |-> FALSE, s |-> t]

\* The upper-case letters of the model's alphabet with their lower-case forms.
CasePairs ==
    { <<"Y", "y">>, <<"N", "n">>, <<"O", "o">>, <<"E", "e">>, <<"S", "s">> }

\* str.lower() on one character.
LowerChar(c) ==
    IF \E p \in CasePairs : p[1] = c
    THEN (CHOOSE p \in CasePairs : p[1] = c)[2]
    ELSE c

\* str.lower() on a text.
Lower(t) == [i \in 1..Len(t) |-> LowerChar(t[i])]

TextYes   == <<"Y", "e", "s">>
TextyesLc == <<"y", "e", "s">>
TextNO    == <<"N", "O">>
TextnoLc  == <<"n", "o">>
TextNo    == <<"N", "o">>
TextMaybe == <<"m", "a", "y", "b", "e">>
TextMinus == <<"-", "1">>
TextOther == <<"O", "t", "h", "e", "r">>

Q1 == <<"Q", "1">>
Q2 == <<"Q", "2">>
Q3 == <<"Q", "3">>

\* The default of the parameter missing_value.
MissingValueDefault == TextMinus

\* The default of the parameter max_display.
MaxDisplayDefault == 5

----------------------------------------------------------------------------
(* Tables (DataFrames): a sequence of column names and a sequence of rows, *)
(* each row a function from the column names to cells.                     *)

ResponseColumns == <<"question_text", "answer_text">>

NoTable == [columns |-> <<>>, rows |-> <<>>]

\* df[name]
Column(t, name) == [i \in 1..Len(t.rows) |-> t.rows[i][name]]

\* series == text, element-wise; a null cell compares unequal to every text.
EqText(cell, t) == (~cell.null) /\ cell.s = t

\* A selection that keeps every row, whatever its question.
FilterKeepsAll(t, question) == t

\* df[df["question_text"] == question].copy()
FilterByQuestion(t, question) ==
    [columns |-> t.columns,
     rows    |-> SelectSeq(t.rows,
                     LAMBDA r : EqText(r["question_text"], question))]

\* df[name] = cells
WithColumn(t, name, cells) ==
    [columns |-> IF name \in Range(t.columns)
                 THEN t.columns ELSE Append(t.columns, name),
     rows    |-> [i \in 1..Len(t.rows) |->
                     [k \in (DOMAIN t.rows[i]) \cup {name} |->
                         IF k = name THEN cells[i] ELSE t.rows[i][k]]]]

\* The distinct elements of a sequence, in order of first appearance.
RECURSIVE Uniques(_)
Uniques(s) ==
    IF s = <<>> THEN <<>>
    ELSE LET rest == Uniques(SubSeq(s, 1, Len(s) - 1))
             last == s[Len(s)]
         IN  IF last \in Range(rest) THEN rest ELSE Append(rest, last)

Occurrences(s, v) == Cardinality({i \in DOMAIN s : s[i] = v})

\* Stable insertion of x into a sequence sorted by descending count.
RECURSIVE InsertDescending(_, _)
InsertDescending(sorted, x) ==
    IF sorted = <<>> THEN <<x>>
    ELSE IF Head(sorted).count >= x.count
         THEN <<Head(sorted)>> \o InsertDescending(Tail(sorted), x)
         ELSE <<x>> \o sorted

RECURSIVE SortDescending(_)
SortDescending(s) ==
    IF s = <<>> THEN <<>>
    ELSE InsertDescending(SortDescending(SubSeq(s, 1, Len(s) - 1)), s[Len(s)])

\* Series.value_counts(sort=False): the entries in first-appearance order.
ValueCountsUnsorted(cells) ==
    LET present == SelectSeq(cells, LAMBDA c : ~c.null)
        values  == Uniques(present)
    IN  [i \in 1..Len(values) |->
            [value |-> values[i], count |-> Occurrences(present, values[i])]]

\* Series.value_counts(): null cells are dropped (dropna=True), one entry per
\* distinct value, sorted by descending count (ties keep first-appearance order).
ValueCounts(cells) ==
    LET present == SelectSeq(cells, LAMBDA c : ~c.null)
        values  == Uniques(present)
    IN  SortDescending(
            [i \in 1..Len(values) |->
                [value |-> values[i], count |-> Occurrences(present, values[i])]])

\* (series == missing_value).sum()
CountEqual(cells, t) == Cardinality({i \in DOMAIN cells : EqText(cells[i], t)})

----------------------------------------------------------------------------
(* count_values *)

\* The summary count_values prints.
CountValuesOutput(distinct_values, count_missing, total_count, max_display) ==
    <<[kind |-> "head",
       value |-> SubSeq(distinct_values, 1, Min(max_display, Len(distinct_values)))]>>
    \o (IF Len(distinct_values) > max_display
        THEN <<[kind |-> "more", value |-> Len(distinct_values) - max_display]>>
        ELSE <<>>)
    \o <<[kind |-> "missing", value |-> count_missing],
         [kind |-> "total", value |-> total_count]>>

\* The locals and the returned triple of count_values.
CountValuesResult(t, question_text, missing_value) ==
    LET question_df == FilterByQuestion(t, question_text)
    IN  [question_df     |-> question_df,
         distinct_values |-> ValueCounts(Column(question_df, "answer_text")),
         count_missing   |-> CountEqual(Column(question_df, "answer_text"),
                                        missing_value),
         total_count     |-> Len(question_df.rows)]

----------------------------------------------------------------------------
(* transform_and_aggregate *)

\* A lookup without the .str.lower() step.
StrLowerIdentity(cell) == cell

\* Series.str.lower(): a null cell stays null.
StrLower(cell) == IF cell.null THEN Null ELSE Str(Lower(cell.s))

\* Series.map(mapping): a cell whose text is no key of the mapping becomes null.
MapCell(cell, mapping) ==
    IF (~cell.null) /\ cell.s \in DOMAIN mapping
    THEN Str(mapping[cell.s]) ELSE Null

\* A lookup without the .fillna("Other") step.
FillNaKeepsNull(cell, t) == cell

\* Series.fillna(text)
FillNa(cell, t) == IF cell.null THEN Str(t) ELSE cell

\* filtered_df["answer_text"].str.lower().map(mapping).fillna("Other")
Categorize(cells, mapping) ==
    [i \in 1..Len(cells) |-> FillNa(MapCell(StrLower(cells[i]), mapping), TextOther)]

\* value_counts.reset_index() with the columns renamed [column_name, "count"].
ResetIndex(value_counts, column_name) ==
    [columns |-> <<column_name, "count">>,
     rows    |-> [i \in 1..Len(value_counts) |->
                     [k \in {column_name, "count"} |->
                         IF k = "count" THEN value_counts[i].count
                         ELSE value_counts[i].value]]]

\* The locals and the returned table of transform_and_aggregate.
TransformResult(t, question, column_name, mapping) ==
    LET selected    == FilterByQuestion(t, question)
        filtered_df == WithColumn(selected, column_name,
                           Categorize(Column(selected, "answer_text"), mapping))
    IN  [filtered_df |-> filtered_df,
         result_df   |-> ResetIndex(ValueCounts(Column(filtered_df, column_name)),
                                    column_name)]

\* The caller's table when the function works on the caller's object in place.
CallerTableAliased(table, local) == local

\* The caller's table after a call: both functions work on a .copy() of the
\* selection, so the object the caller passed is left as it was.
CallerTable(table, local) == table

----------------------------------------------------------------------------
(* Inputs. *)

AnswerCells ==
    {Str(TextYes), Str(TextyesLc), Str(TextNO), Str(TextMaybe), Str(TextMinus), Null}

\* Rows of the question the calls ask about carry every answer; rows of the
\* other question carry a mapped text or the missing-value text.
Row(q, a) ==
    [k \in {"question_text", "answer_text"} |->
        IF k = "question_text" THEN Str(q) ELSE a]

RowValues ==
    {Row(Q1, a) : a \in AnswerCells}
    \cup {Row(Q2, a) : a \in {Str(TextYes), Str(TextMinus)}}

Tables ==
    {[columns |-> ResponseColumns, rows |-> rows] :
        rows \in UNION {[1..n -> RowValues] : n \in 0..MaxRows}}

Questions == {Q1, Q3}

YesNoMapping ==
    [k \in {TextyesLc, TextnoLc} |-> IF k = TextyesLc THEN TextYes ELSE TextNo]

\* A mapping with a key that is not lower-case, which no lower-cased answer hits.
MixedCaseMapping ==
    [k \in {TextYes, TextMaybe} |-> IF k = TextYes THEN TextYes ELSE TextNo]

Mappings == {YesNoMapping, MixedCaseMapping}

ColumnNames == {"category", "answer_text"}

DisplayCaps == {1, MaxDisplayDefault}

NoCall == [op |-> "none"]

----------------------------------------------------------------------------
(* The analysis calls.  The program is single-threaded: a call runs only   *)
(* when no loader call is in progress, and the caller consumes a result    *)
(* before it makes the next call.                                          *)

\* count_values(df, question_text, missing_value, max_display)
CountValues ==
    /\ pc = "idle"
    /\ ret = NoCall
    /\ \E question_text \in Questions, max_display \in DisplayCaps :
           LET r == CountValuesResult(df, question_text, MissingValueDefault)
           IN  /\ ret' = [op              |-> "count_values",
                          question        |-> question_text,
                          missing_value   |-> MissingValueDefault,
                          distinct_values |-> r.distinct_values,
                          count_missing   |-> r.count_missing,
                          total_count     |-> r.total_count]
               /\ stdout' = CountValuesOutput(r.distinct_values, r.count_missing,
                                              r.total_count, max_display)
               /\ df' = CallerTable(df, r.question_df)
    /\ UNCHANGED <<db, pc, conn, pending, staged, outcome>>

\* transform_and_aggregate(df, question, column_name, mapping)
TransformAndAggregate ==
    /\ pc = "idle"
    /\ ret = NoCall
    /\ \E question \in Questions, column_name \in ColumnNames, mapping \in Mappings :
           LET r == TransformResult(df, question, column_name, mapping)
           IN  /\ ret' = [op          |-> "transform_and_aggregate",
                          question    |-> question,
                          column_name |-> column_name,
                          mapping     |-> mapping,
                          filtered_df |-> r.filtered_df,
                          result_df   |-> r.result_df]
               /\ df' = CallerTable(df, r.filtered_df)
    /\ UNCHANGED <<db, pc, conn, pending, staged, outcome, stdout>>

\* The caller drops the result of the last call: every result is transient.
Discard ==
    /\ ret # NoCall
    /\ ret' = NoCall
    /\ stdout' = <<>>
    /\ UNCHANGED <<db, pc, conn, pending, staged, outcome, df>>

NoDatabase == [openable |-> FALSE, tables |-> {}, rows |-> NoTable]

NoOutcome == [kind |-> "none", exc |-> "none", value |-> NoTable]

LoaderIdle ==
    /\ pc = "idle"
    /\ conn = "unbound"
    /\ pending = "none"
    /\ staged = [kind |-> "nothing", value |-> NoTable]
    /\ outcome = NoOutcome

InitTable ==
    /\ db = NoDatabase
    /\ LoaderIdle
    /\ stdout = <<>>
    /\ df \in Tables
    /\ ret = NoCall

NextTable == CountValues \/ TransformAndAggregate \/ Discard

SpecTable == InitTable /\ [][NextTable]_vars

----------------------------------------------------------------------------
(* join_tables_to_dataframe, one action per step of its try / except /     *)
(* finally.                                                                *)

RequiredTables == {"Survey", "Answer", "Question"}

\* What a failing pd.read_sql_query raises: an sqlite3 error as it is, or the
\* DatabaseError pandas wraps it in, which is no subclass of sqlite3.Error.
QueryErrors == {"sqlite3.Error", "pandas.DatabaseError"}

\* except sql.Error
IsSqlError(e) == e = "sqlite3.Error"

Nothing == [kind |-> "nothing", value |-> NoTable]

ReturnNone == [kind |-> "None", value |-> NoTable]

ReturnTable(t) == [kind |-> "DataFrame", value |-> t]

\* The caller enters join_tables_to_dataframe(db_path): fresh locals.
Call ==
    /\ pc \in {"idle", "done"}
    /\ ret = NoCall
    /\ pc' = "connect"
    /\ conn' = "unbound"
    /\ pending' = "none"
    /\ staged' = Nothing
    /\ outcome' = NoOutcome
    /\ stdout' = <<>>
    /\ UNCHANGED <<db, df, ret>>

\* conn = sql.connect(db_path)
Connect ==
    /\ pc = "connect"
    /\ IF db.openable
       THEN /\ conn' = "open"
            /\ pc' = "query"
            /\ UNCHANGED pending
       ELSE /\ pending' = "sqlite3.Error"
            /\ pc' = "except"
            /\ UNCHANGED conn
    /\ UNCHANGED <<db, staged, outcome, stdout, df, ret>>

\* df = pd.read_sql_query(query, conn); return df
Query ==
    /\ pc = "query"
    /\ IF RequiredTables \subseteq db.tables
       THEN /\ staged' = ReturnTable(db.rows)
            /\ pc' = "finally"
            /\ UNCHANGED pending
       ELSE \E e \in QueryErrors :
                /\ pending' = e
                /\ pc' = IF IsSqlError(e) THEN "except" ELSE "finally"
                /\ UNCHANGED staged
    /\ UNCHANGED <<db, conn, outcome, stdout, df, ret>>

\* except sql.Error as e: print(f"An error occurred: {e}")
Except ==
    /\ pc = "except"
    /\ stdout' = Append(stdout, [kind |-> "error", value |-> pending])
    /\ pending' = "none"
    /\ staged' = ReturnNone
    /\ pc' = "finally"
    /\ UNCHANGED <<db, conn, outcome, df, ret>>

\* A finally block that leaves the connection as it is.
FinallyWithoutClose ==
    /\ pc = "finally"
    /\ outcome' = IF pending # "none"
                  THEN [kind |-> "raised", exc |-> pending, value |-> NoTable]
                  ELSE [kind |-> "returned", exc |-> "none", value |-> staged.value]
    /\ pc' = "done"
    /\ UNCHANGED <<db, conn, pending, staged, stdout, df, ret>>

\* finally: if conn: conn.close()  -- and then the call returns or raises.
\* Reading the unbound local `conn` raises UnboundLocalError, which replaces
\* whatever the call was about to return or raise.
Finally ==
    /\ pc = "finally"
    /\ IF conn = "unbound"
       THEN /\ pending' = "UnboundLocalError"
            /\ UNCHANGED conn
       ELSE /\ conn' = "closed"
            /\ UNCHANGED pending
    /\ outcome' = IF pending' # "none"
                  THEN [kind |-> "raised", exc |-> pending', value |-> NoTable]
                  ELSE [kind |-> "returned", exc |-> "none", value |-> staged.value]
    /\ pc' = "done"
    /\ UNCHANGED <<db, staged, stdout, df, ret>>

\* The join result of at most one row that a complete data source holds.
DatabaseRows == {t \in Tables : Len(t.rows) <= 1}

Databases ==
    [openable : BOOLEAN, tables : SUBSET RequiredTables, rows : DatabaseRows]

InitLoader ==
    /\ db \in Databases
    /\ LoaderIdle
    /\ stdout = <<>>
    /\ df = NoTable
    /\ ret = NoCall

NextLoader == Call \/ Connect \/ Query \/ Except \/ Finally

SpecLoader == InitLoader /\ [][NextLoader]_vars

----------------------------------------------------------------------------
(* calculate_confidence_interval, in fixed-point thousandths.              *)

Unit == 10 * 10 * 10

\* scipy.stats.norm.ppf on the probabilities the model uses (z in thousandths).
NormPpf(q) ==
    CASE q = 5   -> -2576
      [] q = 25  -> -1960
      [] q = 50  -> -1645
      [] q = 100 -> -1282
      [] q = 250 -> -674
      [] q = 500 -> 0
      [] q = 750 -> 674
      [] q = 900 -> 1282
      [] q = 950 -> 1645
      [] q = 975 -> 1960
      [] q = 995 -> 2576

\* np.sqrt: of a value in millionths, the root in thousandths (rounded down).
Sqrt(v) == CHOOSE r \in 0..Unit : r * r <= v /\ (r + 1) * (r + 1) > v

\* The z score taken from the lower tail.
ZScoreLowerTail(confidence_level) == NormPpf((Unit - confidence_level) \div 2)

\* z_score = norm.ppf(1 - (1 - confidence_level) / 2)
ZScore(confidence_level) == NormPpf(Unit - (Unit - confidence_level) \div 2)

\* se = np.sqrt((p * (1 - p)) / n)
StandardError(p, n) == Sqrt((p * (Unit - p)) \div n)

\* margin_of_error = z_score * se
MarginOfError(p, n, confidence_level) ==
    (ZScore(confidence_level) * StandardError(p, n)) \div Unit

\* return p - margin_of_error, p + margin_of_error
ConfidenceInterval(p, n, confidence_level) ==
    [lower |-> p - MarginOfError(p, n, confidence_level),
     upper |-> p + MarginOfError(p, n, confidence_level)]

\* The default of the parameter confidence_level, 0.95.
ConfidenceDefault == 950

Proportions == {0, 1, 50, 250, 500, 750, 950, 999, 1000}

SampleSizes == {1, 2, 10, 100, 1000}

ConfidenceLevels == {500, 800, 900, ConfidenceDefault, 990}

\* calculate_confidence_interval(p, n, confidence_level)
CalculateConfidenceInterval ==
    /\ pc = "idle"
    /\ ret = NoCall
    /\ \E p \in Proportions, n \in SampleSizes, confidence_level \in ConfidenceLevels :
           LET r == ConfidenceInterval(p, n, confidence_level)
           IN  ret' = [op               |-> "calculate_confidence_interval",
                       p                |-> p,
                       n                |-> n,
                       confidence_level |-> confidence_level,
                       lower            |-> r.lower,
                       upper            |-> r.upper]
    /\ UNCHANGED <<db, pc, conn, pending, staged, outcome, stdout, df>>

InitInterval ==
    /\ db = NoDatabase
    /\ LoaderIdle
    /\ stdout = <<>>
    /\ df = NoTable
    /\ ret = NoCall

NextInterval == CalculateConfidenceInterval \/ Discard

SpecInterval == InitInterval /\ [][NextInterval]_vars

----------------------------------------------------------------------------
(* Properties. *)

\* The rows of the caller's table that a question selects, stated on the input.
Matching(question) ==
    SelectSeq(df.rows, LAMBDA r : (~r["question_text"].null)
                                  /\ r["question_text"].s = question)

\* C1: in join_tables_to_dataframe, once the connection has been opened it is
\* closed on every exit path: no call ends, by returning or by raising, with
\* the connection still open.
C1_ConnectionClosedOnExit ==
    pc = "done" => /\ conn # "open"
                   /\ db.openable => conn = "closed"

\* A call whose query failed has ended by raising, with the connection closed.
C1_Witness ==
    /\ pc = "done"
    /\ db.openable
    /\ outcome.kind = "raised"
    /\ conn = "closed"

\* C2: when the connection cannot be opened, the failure is reported and the
\* cleanup is a no-op: the call ends with no error other than the data access
\* error.
C2_CleanupIsNoOpWithoutConnection ==
    (pc = "done" /\ ~db.openable) =>
        /\ \E i \in DOMAIN stdout : stdout[i].kind = "error"
        /\ outcome.exc \in {"none", "sqlite3.Error"}

\* C3: when the query fails, the failure is reported on the diagnostic channel
\* and the call ends by raising an error to its caller, never by returning.
C3_QueryFailureReportedAndRaised ==
    (pc = "done" /\ db.openable /\ ~(RequiredTables \subseteq db.tables)) =>
        /\ \E i \in DOMAIN stdout : stdout[i].kind = "error"
        /\ outcome.kind = "raised"

\* C4: the frequency series count_values returns sums to the returned total
\* count, which is the number of rows whose question text matches, also when
\* matching rows have a null answer; and the missing count is at most the total.
C4_FrequenciesSumToTotal ==
    ret.op = "count_values" =>
        /\ ret.total_count = Len(Matching(ret.question))
        /\ SumSeq([i \in DOMAIN ret.distinct_values |->
                      ret.distinct_values[i].count]) = ret.total_count
        /\ ret.count_missing <= ret.total_count

\* The label the categorizer is to give an answer cell: the mapping's value for
\* the lower-cased text when that is a key, "Other" otherwise (null included).
ExpectedLabel(cell, mapping) ==
    IF (~cell.null) /\ Lower(cell.s) \in DOMAIN mapping
    THEN mapping[Lower(cell.s)] ELSE TextOther

\* C5: transform_and_aggregate gives every filtered row exactly one label, the
\* expected one, and the per-label counts of the output are the numbers of rows
\* with that label, so they sum to the number of matching rows.
C5_EveryRowLabelled ==
    ret.op = "transform_and_aggregate" =>
        LET rows   == Matching(ret.question)
            col    == ret.column_name
            out    == ret.result_df.rows
            labels == [i \in DOMAIN rows |->
                          ExpectedLabel(rows[i]["answer_text"], ret.mapping)]
        IN  /\ Len(ret.filtered_df.rows) = Len(rows)
            /\ \A i \in DOMAIN rows :
                   ret.filtered_df.rows[i][col] = Str(labels[i])
            /\ \A k \in DOMAIN out :
                   /\ out[k]["count"] > 0
                   /\ out[k]["count"] =
                          Cardinality({i \in DOMAIN rows : Str(labels[i]) = out[k][col]})
            /\ \A i \in DOMAIN rows : \E k \in DOMAIN out : out[k][col] = Str(labels[i])
            /\ SumSeq([k \in DOMAIN out |-> out[k]["count"]]) = Len(rows)

\* A call whose matching rows hold a mapped answer, an unmapped one and a null.
C5_Witness ==
    /\ ret.op = "transform_and_aggregate"
    /\ LET rows == Matching(ret.question)
       IN  /\ \E i \in DOMAIN rows : rows[i]["answer_text"].null
           /\ \E i \in DOMAIN rows : rows[i]["answer_text"] = Str(TextNO)
           /\ \E i \in DOMAIN rows : rows[i]["answer_text"] = Str(TextMaybe)

\* Two texts that differ at most in the case of their letters.
SameUpToCase(a, b) ==
    /\ Len(a) = Len(b)
    /\ \A i \in DOMAIN a :
           \/ a[i] = b[i]
           \/ <<a[i], b[i]>> \in CasePairs
           \/ <<b[i], a[i]>> \in CasePairs

\* C6: mapping lookups are case-insensitive: two filtered rows whose answers
\* differ only in letter case get the same label; the answers Yes, yes, NO,
\* maybe under {yes: Yes, no: No} are counted Yes 2, No 1, Other 1.
C6_CaseInsensitiveLookup ==
    ret.op = "transform_and_aggregate" =>
        LET rows == Matching(ret.question)
            col  == ret.column_name
            out  == ret.result_df.rows
        IN  /\ \A i, j \in DOMAIN rows :
                   ( /\ ~rows[i]["answer_text"].null
                     /\ ~rows[j]["answer_text"].null
                     /\ SameUpToCase(rows[i]["answer_text"].s,
                                     rows[j]["answer_text"].s) )
                   => ret.filtered_df.rows[i][col] = ret.filtered_df.rows[j][col]
            /\ ( /\ ret.mapping = YesNoMapping
                 /\ [i \in DOMAIN rows |-> rows[i]["answer_text"]]
                        = <<Str(TextYes), Str(TextyesLc), Str(TextNO), Str(TextMaybe)>> )
               => {<<out[k][col], out[k]["count"]>> : k \in DOMAIN out}
                      = {<<Str(TextYes), 2>>, <<Str(TextNo), 1>>, <<Str(TextOther), 1>>}

\* The case study: the matching answers are Yes, yes, NO, maybe.
C6_Witness ==
    /\ ret.op = "transform_and_aggregate"
    /\ ret.mapping = YesNoMapping
    /\ LET rows == Matching(ret.question)
       IN  [i \in DOMAIN rows |-> rows[i]["answer_text"]]
               = <<Str(TextYes), Str(TextyesLc), Str(TextNO), Str(TextMaybe)>>

\* C7: when no row matches the question, count_values returns an empty
\* frequency mapping with missing count 0 and total count 0, and
\* transform_and_aggregate returns an empty table of two columns.
C7_EmptySelection ==
    /\ (ret.op = "count_values" /\ Matching(ret.question) = <<>>) =>
           /\ ret.distinct_values = <<>>
           /\ ret.count_missing = 0
           /\ ret.total_count = 0
    /\ (ret.op = "transform_and_aggregate" /\ Matching(ret.question) = <<>>) =>
           /\ ret.result_df.columns = <<ret.column_name, "count">>
           /\ ret.result_df.rows = <<>>

\* A call on a table that has rows, none of them of the question asked.
C7_Witness ==
    /\ ret.op \in {"count_values", "transform_and_aggregate"}
    /\ df.rows # <<>>
    /\ Matching(ret.question) = <<>>

CriticalValue(confidence_level) ==
    CASE confidence_level = 500 -> 674
      [] confidence_level = 800 -> 1282
      [] confidence_level = 900 -> 1645
      [] confidence_level = 950 -> 1960
      [] confidence_level = 990 -> 2576

\* C9: for 0 < p < 1 and n > 0, calculate_confidence_interval returns
\* (p - z*sqrt(p(1-p)/n), p + z*sqrt(p(1-p)/n)), z the two-sided critical value
\* of the confidence level, and lower <= p <= upper; p = 0.5, n = 100 at 0.95
\* gives (0.402, 0.598).
C9_IntervalAroundP ==
    (ret.op = "calculate_confidence_interval" /\ 0 < ret.p /\ ret.p < Unit /\ ret.n > 0) =>
        /\ ret.lower <= ret.p
        /\ ret.p <= ret.upper
        /\ \E se \in 0..Unit :
               /\ se * se * ret.n <= ret.p * (Unit - ret.p)
               /\ (se + 1) * (se + 1) * ret.n > ret.p * (Unit - ret.p)
               /\ ret.lower = ret.p - (CriticalValue(ret.confidence_level) * se) \div Unit
               /\ ret.upper = ret.p + (CriticalValue(ret.confidence_level) * se) \div Unit
        /\ (ret.p = 500 /\ ret.n = 100 /\ ret.confidence_level = 950) =>
               (ret.lower = 402 /\ ret.upper = 598)

\* An interval with a positive margin around a proportion strictly inside (0, 1).
C9_Witness ==
    /\ ret.op = "calculate_confidence_interval"
    /\ 0 < ret.p
    /\ ret.p < Unit
    /\ ret.lower < ret.p
    /\ ret.p < ret.upper

\* C10: the rows transform_and_aggregate returns are ordered by descending
\* count, and every label is in exactly one row.
C10_DescendingCounts ==
    ret.op = "transform_and_aggregate" =>
        LET out == ret.result_df.rows
            col == ret.column_name
        IN  /\ \A k \in 1..(Len(out) - 1) : out[k]["count"] >= out[k + 1]["count"]
            /\ \A k, m \in DOMAIN out : out[k][col] = out[m][col] => k = m

\* An output whose most frequent label is not the label of the first row.
C10_Witness ==
    /\ ret.op = "transform_and_aggregate"
    /\ Len(ret.result_df.rows) >= 2
    /\ ret.result_df.rows[1]["count"] > ret.result_df.rows[2]["count"]
    /\ ret.result_df.rows[1][ret.column_name]
           # ret.filtered_df.rows[1][ret.column_name]

====
